---- MODULE Spec2Model ----
(***************************************************************************)
(* A model of the generic persistence layer of GarminDB (HealthDB/DB.py):  *)
(* the DB connection manager with its bounded-retry commit, and DBObject,  *)
(* the mapping between value dictionaries and the rows of one table, with  *)
(* its find / create / find_or_create / create_or_update operations.       *)
(*                                                                         *)
(* One entity type is modelled: a table with an autoincrement id, the time *)
(* column "day" (also its only match column) and the data column "steps".  *)
(* One caller runs one operation at a time.  The backend (SQLAlchemy's     *)
(* session and the database under it) is the environment: each call of     *)
(* session.commit() either succeeds, raises OperationalError (a transient  *)
(* error) or raises another error.                                         *)
(*                                                                         *)
(* Several specifications share the module.  Spec is the caller of the     *)
(* find / create / update operations with DB.commit, and SpecUpsert the    *)
(* caller of the upserts and find_one alone.  SpecQuery runs the aggregate *)
(* queries (get_col_func, get_col_func_of_max_per_day, row_count) on a     *)
(* table of timestamped rows, SpecForValue the aggregates of daily maxima  *)
(* and those filtered by a match column.  SpecConn follows the sessions    *)
(* DB.session and DB.query_session hand out, the views create_join_view    *)
(* makes and the registration of a class by setup.  SpecTcx is             *)
(* GarminTcxData.process_files (import_garmin_activities.py) on a list of  *)
(* TCX files.  SpecPipelines interleaves the statements of two concurrent  *)
(* find_or_create / create_or_update calls for one match key.              *)
(***************************************************************************)
EXTENDS Integers, Sequences, FiniteSets, TLC

\* ------------------------------------------------------------------ bounds
\* The table holds at most MaxRows rows.
MaxRows == 2
\* The values of "steps" are None and 1..MaxVal.
MaxVal == 1
\* No call begins once DB.commit_errors has reached MaxCommitErrors.
MaxCommitErrors == 2
\* The table the aggregate queries run on holds at most MaxQRows rows.
MaxQRows == 3
\* session_maker makes at most MaxSessions sessions.
MaxSessions == 4
\* process_files runs on at most MaxFiles files.
MaxFiles == 2
\* A TCX file has at most MaxPoints track points in all.
MaxPoints == 2

\* ------------------------------------------------------- program constants
\* Python's None (and SQL's NULL).
None == -1

\* One attempt more than DB.max_commit_attempts.
max_commit_attempts_off_by_one == 5 + 1

max_commit_attempts == 5

min_row_values == 1

\* The columns of the table that a dictionary can set (cls.__table__.columns).
get_col_names == {"day", "steps"}

time_col_name == "day"

\* setup(): match_col_names is None, so match_cols = {time_col_name : time_col}.
match_cols == {time_col_name}

\* The keys a caller's dictionary may hold: the columns and one key that is
\* no column of the table.
Keys == get_col_names \cup {"bogus"}

\* The days of the rows: one day, so that rows share their match key.
Days == {1}

\* A key that is no column holds None or one value, which nothing reads.
BogusValues == {None} \cup Days

KeyValues(k) ==
    IF k = "day" THEN {None} \cup Days
    ELSE IF k \in get_col_names THEN {None} \cup (1..MaxVal)
    ELSE BogusValues

\* The values_dict arguments: every dictionary over a subset of Keys.
Dicts == UNION {{d \in [K -> {None} \cup Days \cup (1..MaxVal)] :
                    \A k \in K : d[k] \in KeyValues(k)} : K \in SUBSET Keys}

\* A newly constructed instance, cls(): no column is set.
NewInstance == [c \in get_col_names |-> None]

\* ------------------------------------------------------------ Record Mapper

\* set_col_value without its "if name in self.get_col_names()".
set_col_value_unchecked(self, name, value) ==
    [c \in DOMAIN self \cup {name} |-> IF c = name THEN value ELSE self[c]]

set_col_value(self, name, value) ==
    IF name \in get_col_names THEN [self EXCEPT ![name] = value] ELSE self

\* One iteration of the loop of _from_dict; self is the instance with its
\* not_none_values counter.
from_dict_item(self, key, value, ignore_none) ==
    IF value # None
    THEN [inst |-> set_col_value(self.inst, key, value),
          not_none_values |-> self.not_none_values + 1]
    ELSE IF ~ignore_none
         THEN [self EXCEPT !.inst = set_col_value(self.inst, key, value)]
         ELSE self

RECURSIVE from_dict_loop(_, _, _, _)
from_dict_loop(self, values_dict, keys, ignore_none) ==
    IF keys = {} THEN self
    ELSE LET key == CHOOSE k \in keys : TRUE
         IN from_dict_loop(from_dict_item(self, key, values_dict[key], ignore_none),
                           values_dict, keys \ {key}, ignore_none)

_from_dict(inst, values_dict, ignore_none) ==
    from_dict_loop([inst |-> inst, not_none_values |-> 0],
                   values_dict, DOMAIN values_dict, ignore_none)

from_dict(values_dict) == _from_dict(NewInstance, values_dict, FALSE)

\* ------------------------------------------------------------------ Session
\* A session: the instances added to it (new), the loaded instances it has
\* changed (dirty, as <<id, instance>>), and whether it is closed.
Session == [new |-> <<>>, dirty |-> <<>>, closed |-> FALSE]

session_add(session, instance) == [session EXCEPT !.new = Append(@, instance)]

session_set(session, id, instance) == [session EXCEPT !.dirty = Append(@, <<id, instance>>)]

session_close(session) == [session EXCEPT !.closed = TRUE]

\* A rollback that also closes the session.
session_rollback_closes(session) == [new |-> <<>>, dirty |-> <<>>, closed |-> TRUE]

\* session.rollback() expunges the instances added in the transaction and
\* expires the changes made to loaded ones.
session_rollback(session) == [session EXCEPT !.new = <<>>, !.dirty = <<>>]

RECURSIVE apply_dirty(_, _)
apply_dirty(store, dirty) ==
    IF dirty = <<>> THEN store
    ELSE apply_dirty([store EXCEPT ![Head(dirty)[1]] = Head(dirty)[2]], Tail(dirty))

\* What a successful session.commit() writes: the changes, then the new rows.
session_flush(store, session) == apply_dirty(store, session.dirty) \o session.new

\* ------------------------------------------------------------------- Finder

\* _find_query with "= NULL", which no row satisfies, where SQLAlchemy
\* renders "IS NULL" for a comparison with None.
find_query_equals_null(store, values_dict) ==
    {i \in DOMAIN store : \A c \in match_cols :
        values_dict[c] # None /\ store[i][c] = values_dict[c]}

\* The ids of the rows that equal values_dict in every match column.
_find_query(store, values_dict) ==
    {i \in DOMAIN store : \A c \in match_cols : store[i][c] = values_dict[c]}

\* Query.first() in place of Query.one_or_none().
find_one_first(store, values_dict) ==
    LET q == _find_query(store, values_dict)
    IN IF q = {} THEN [err |-> "none", id |-> None]
       ELSE [err |-> "none", id |-> CHOOSE i \in q : \A j \in q : i <= j]

\* Query.one_or_none(): the row, None, or MultipleResultsFound.
_find_one(store, values_dict) ==
    LET q == _find_query(store, values_dict)
    IN IF Cardinality(q) > 1 THEN [err |-> "MultipleResultsFound", id |-> None]
       ELSE IF q = {} THEN [err |-> "none", id |-> None]
       ELSE [err |-> "none", id |-> CHOOSE i \in q : TRUE]

\* ------------------------------------------------------------ Upsert Engine

\* _create without its "if ignore_none: return None".
create_always_raises(session, values_dict, ignore_none) ==
    LET instance == from_dict(values_dict)
    IN IF instance.not_none_values < min_row_values
       THEN [err |-> "ValueError", session |-> session,
             not_none_values |-> instance.not_none_values]
       ELSE [err |-> "none", session |-> session_add(session, instance.inst),
             not_none_values |-> instance.not_none_values]

_create(session, values_dict, ignore_none) ==
    LET instance == from_dict(values_dict)
    IN IF instance.not_none_values < min_row_values
       THEN IF ignore_none
            THEN [err |-> "none", session |-> session,
                  not_none_values |-> instance.not_none_values]
            ELSE [err |-> "ValueError", session |-> session,
                  not_none_values |-> instance.not_none_values]
       ELSE [err |-> "none", session |-> session_add(session, instance.inst),
             not_none_values |-> instance.not_none_values]


\* What a call does before it commits: the session it leaves, the error it
\* raises ("none" when it raises nothing), the not_none_values of the
\* instance it mapped (None when it mapped nothing), the value it returns and
\* whether it goes on to DB.commit(session).
Outcome(session, err, nnv, result, commits) ==
    [session |-> session, err |-> err, not_none_values |-> nnv,
     result |-> result, commits |-> commits /\ err = "none"]

KeyError(values_dict) == ~(match_cols \subseteq DOMAIN values_dict)

\* create() does not hand its ignore_none to _create().
create_call(store, values_dict, ignore_none) ==
    LET r == _create(Session, values_dict, FALSE)
    IN Outcome(r.session, r.err, r.not_none_values, None, TRUE)

\* find_or_create that takes a missing match column for "no row found", as
\* values_dict.get() would.
find_or_create_call_get(store, values_dict) ==
    IF KeyError(values_dict)
    THEN LET r == _create(Session, values_dict, FALSE)
         IN Outcome(r.session, r.err, r.not_none_values, None, TRUE)
    ELSE LET f == _find_one(store, values_dict)
         IN IF f.err # "none" THEN Outcome(Session, f.err, None, None, FALSE)
            ELSE IF f.id = None
                 THEN LET r == _create(Session, values_dict, FALSE)
                      IN Outcome(r.session, r.err, r.not_none_values, None, TRUE)
                 ELSE Outcome(Session, "none", None, None, FALSE)

find_or_create_call(store, values_dict) ==
    IF KeyError(values_dict) THEN Outcome(Session, "KeyError", None, None, FALSE)
    ELSE LET f == _find_one(store, values_dict)
         IN IF f.err # "none" THEN Outcome(Session, f.err, None, None, FALSE)
            ELSE IF f.id = None
                 THEN LET r == _create(Session, values_dict, FALSE)
                      IN Outcome(r.session, r.err, r.not_none_values, None, TRUE)
                 ELSE Outcome(Session, "none", None, None, FALSE)

\* create_or_update that returns the row it found as find_or_create does,
\* without a commit.
create_or_update_returns_found(store, values_dict, ignore_none) ==
    IF KeyError(values_dict) THEN Outcome(Session, "KeyError", None, None, FALSE)
    ELSE LET f == _find_one(store, values_dict)
         IN IF f.err # "none" THEN Outcome(Session, f.err, None, None, FALSE)
            ELSE IF f.id = None
                 THEN LET r == _create(Session, values_dict, ignore_none)
                      IN Outcome(r.session, r.err, r.not_none_values, None, TRUE)
                 ELSE LET u == _from_dict(store[f.id], values_dict, ignore_none)
                      IN Outcome(session_set(Session, f.id, u.inst), "none",
                                 u.not_none_values, None, FALSE)

create_or_update_call(store, values_dict, ignore_none) ==
    IF KeyError(values_dict) THEN Outcome(Session, "KeyError", None, None, FALSE)
    ELSE LET f == _find_one(store, values_dict)
         IN IF f.err # "none" THEN Outcome(Session, f.err, None, None, FALSE)
            ELSE IF f.id = None
                 THEN LET r == _create(Session, values_dict, ignore_none)
                      IN Outcome(r.session, r.err, r.not_none_values, None, TRUE)
                 ELSE LET u == _from_dict(store[f.id], values_dict, ignore_none)
                      IN Outcome(session_set(Session, f.id, u.inst), "none",
                                 u.not_none_values, None, TRUE)

find_one_call(store, values_dict) ==
    IF KeyError(values_dict) THEN Outcome(Session, "KeyError", None, None, FALSE)
    ELSE LET f == _find_one(store, values_dict)
         IN Outcome(Session, f.err, None, f.id, FALSE)

\* Query.all(): every matching row, here the set of their ids.
find_all_call(store, values_dict) ==
    IF KeyError(values_dict) THEN Outcome(Session, "KeyError", None, None, FALSE)
    ELSE Outcome(Session, "none", None, _find_query(store, values_dict), FALSE)

\* instance.id of the row find_one returns, None when it returns None.
find_id_call(store, values_dict) ==
    LET f == find_one_call(store, values_dict)
    IN Outcome(Session, f.err, None, f.result, FALSE)

\* ------------------------------------------------------ Aggregate Queries
\* A second entity type is modelled for the queries: a table with the time
\* column "timestamp" and the data column "hr".  A timestamp is the index of
\* an instant of the Calendar, so timestamps compare as their instants do.

\* Python's None where the model holds a name.
NoneStr == "None"

\* The instants rows can carry, in time order, each with its calendar year
\* and its day of the year: two instants of one day, the next day, and the
\* day of the next year that has the first day's day of the year.
Calendar == << [year |-> 2017, yday |-> 1], [year |-> 2017, yday |-> 1],
               [year |-> 2017, yday |-> 2], [year |-> 2018, yday |-> 1] >>

Timestamps == DOMAIN Calendar

\* The start_ts and end_ts arguments: an instant or the end of the calendar.
RangeBounds == Timestamps \cup {Len(Calendar) + 1}

\* The values of "hr": zero, which Python takes for false, and two others.
HrValues == {0, 1, 2}

TimedRows == [timestamp : Timestamps, hr : HrValues]

RowLE(a, b) == a.timestamp < b.timestamp \/ (a.timestamp = b.timestamp /\ a.hr <= b.hr)

\* The tables the queries run on: no query here depends on the order in
\* which the rows are stored, so one order stands for all of them.
Tables == UNION {{t \in [1..n -> TimedRows] : \A i \in 1..(n - 1) : RowLE(t[i], t[i + 1])}
                 : n \in 0..MaxQRows}

\* strftime("%j", timestamp): the day of the year, the year left out.
strftime_j(timestamp) == Calendar[timestamp].yday

RECURSIVE Sum(_, _)
Sum(f, S) == IF S = {} THEN 0
             ELSE LET i == CHOOSE i \in S : TRUE IN f[i] + Sum(f, S \ {i})

RECURSIVE GCD(_, _)
GCD(a, b) == IF b = 0 THEN a ELSE GCD(b, a % b)

\* A quotient of naturals in lowest terms.
Fraction(num, den) == LET g == GCD(num, den) IN <<num \div g, den \div g>>

\* SQL's min, max, avg and sum over the values f[i], i in S, one value for
\* each i; NULL over no values.  An average is a Fraction.
sql_func(func, f, S) ==
    IF S = {} THEN None
    ELSE CASE func = "min" -> CHOOSE v \in {f[i] : i \in S} : \A i \in S : v <= f[i]
           [] func = "max" -> CHOOSE v \in {f[i] : i \in S} : \A i \in S : v >= f[i]
           [] func = "sum" -> Sum(f, S)
           [] func = "avg" -> Fraction(Sum(f, S), Cardinality(S))

Funcs == {"min", "max", "avg", "sum"}

\* get_col_func with "<=" in place of "<" in its end_ts filter.
get_col_func_end_inclusive(table, func, start_ts, end_ts, ignore_le_zero) ==
    LET query == DOMAIN table
        from_start == IF start_ts # None
                      THEN {i \in query : table[i].timestamp >= start_ts} ELSE query
        to_end == IF end_ts # None
                  THEN {i \in from_start : table[i].timestamp <= end_ts} ELSE from_start
        gt_zero == IF ignore_le_zero THEN {i \in to_end : table[i].hr > 0} ELSE to_end
    IN [rows |-> gt_zero, scalar |-> sql_func(func, [i \in gt_zero |-> table[i].hr], gt_zero)]

\* get_col_func(db, col, func, start_ts, end_ts, ignore_le_zero) for the
\* column "hr": the rows its filters leave and the scalar of the query.
get_col_func(table, func, start_ts, end_ts, ignore_le_zero) ==
    LET query == DOMAIN table
        from_start == IF start_ts # None
                      THEN {i \in query : table[i].timestamp >= start_ts} ELSE query
        to_end == IF end_ts # None
                  THEN {i \in from_start : table[i].timestamp < end_ts} ELSE from_start
        gt_zero == IF ignore_le_zero THEN {i \in to_end : table[i].hr > 0} ELSE to_end
    IN [rows |-> gt_zero, scalar |-> sql_func(func, [i \in gt_zero |-> table[i].hr], gt_zero)]

\* get_col_func_of_max_per_day with the outer function over the rows, not
\* over the daily maxima.
get_col_func_of_all_rows(table, stat_func, start_ts, end_ts) ==
    LET filtered == {i \in DOMAIN table :
                        table[i].timestamp >= start_ts /\ table[i].timestamp < end_ts}
    IN sql_func(stat_func, [i \in filtered |-> table[i].hr], filtered)

\* group_by(func.strftime("%j", cls.timestamp)) on the rows a query has
\* left: the rows of each group, by the group's day of the year.
group_by_strftime_j(table, filtered) ==
    [g \in {strftime_j(table[i].timestamp) : i \in filtered} |->
        {i \in filtered : strftime_j(table[i].timestamp) = g}]

\* The subquery's column "maxes": func.max(col) of every group.
maxes_of(table, groups) ==
    [g \in DOMAIN groups |-> sql_func("max", [i \in groups[g] |-> table[i].hr], groups[g])]

\* max_daily_query of get_col_func_of_max_per_day: its groups.
max_daily_query(table, start_ts, end_ts) ==
    group_by_strftime_j(table, {i \in DOMAIN table :
        table[i].timestamp >= start_ts /\ table[i].timestamp < end_ts})

\* get_col_func_of_max_per_day(db, col, stat_func, start_ts, end_ts) for the
\* column "hr": max(col) of each group of strftime("%j", timestamp), then
\* stat_func over those maxima.
get_col_func_of_max_per_day(table, stat_func, start_ts, end_ts) ==
    LET groups == max_daily_query(table, start_ts, end_ts)
    IN sql_func(stat_func, maxes_of(table, groups), DOMAIN groups)

\* max_daily_query of get_col_func_of_max_per_day_for_value: the rows are
\* filtered by match_col == match_value as well.
max_daily_query_for_value(table, match_col, match_value, start_ts, end_ts) ==
    group_by_strftime_j(table, {i \in DOMAIN table :
        /\ table[i][match_col] = match_value
        /\ table[i].timestamp >= start_ts
        /\ table[i].timestamp < end_ts})

get_col_func_of_max_per_day_for_value(table, stat_func, match_col, match_value, start_ts, end_ts) ==
    LET groups == max_daily_query_for_value(table, match_col, match_value, start_ts, end_ts)
    IN sql_func(stat_func, maxes_of(table, groups), DOMAIN groups)

\* SQL's >= and <: a comparison with NULL is not true.
sql_ge(a, b) == a # None /\ b # None /\ a >= b

sql_lt(a, b) == a # None /\ b # None /\ a < b

\* What get_col_func_for_value, get_col_func_greater_than_value and
\* get_col_func_less_than_value do alike with the rows their match filter
\* has left: both time filters "if start_ts is not None or end_ts is not
\* None", the filter col > 0 if ignore_le_zero, and the scalar.
values_query_scalar(table, stat_func, matched, start_ts, end_ts, ignore_le_zero) ==
    LET in_range == IF start_ts # None \/ end_ts # None
                    THEN {i \in matched : /\ sql_ge(table[i].timestamp, start_ts)
                                          /\ sql_lt(table[i].timestamp, end_ts)}
                    ELSE matched
        gt_zero == IF ignore_le_zero THEN {i \in in_range : table[i].hr > 0} ELSE in_range
    IN [rows |-> gt_zero, scalar |-> sql_func(stat_func, [i \in gt_zero |-> table[i].hr], gt_zero)]

get_col_func_for_value(table, stat_func, match_col, match_value, start_ts, end_ts, ignore_le_zero) ==
    values_query_scalar(table, stat_func, {i \in DOMAIN table : table[i][match_col] = match_value},
                        start_ts, end_ts, ignore_le_zero)

get_col_func_greater_than_value(table, stat_func, match_col, match_value, start_ts, end_ts, ignore_le_zero) ==
    values_query_scalar(table, stat_func, {i \in DOMAIN table : table[i][match_col] > match_value},
                        start_ts, end_ts, ignore_le_zero)

get_col_func_less_than_value(table, stat_func, match_col, match_value, start_ts, end_ts, ignore_le_zero) ==
    values_query_scalar(table, stat_func, {i \in DOMAIN table : table[i][match_col] < match_value},
                        start_ts, end_ts, ignore_le_zero)

\* The arguments of the queries that filter by a match column: the match
\* column is "hr", the match value is 1, a range bound (when given) the
\* first instant, the third or the end of the calendar.
MatchCols == {"hr"}

MatchValues == {1}

ValueRangeBounds == {1, 3, Len(Calendar) + 1}

\* Python's truth value of a column value: None and zero are false.
bool(value) == value # None /\ value # 0

\* row_count with "col_value is not None" in place of the truth of col_value.
row_count_is_not_none(table, col, col_value) ==
    LET query == DOMAIN table
    IN IF col # NoneStr /\ col_value # None
       THEN Cardinality({i \in query : table[i][col] = col_value})
       ELSE Cardinality(query)

\* row_count(db, col, col_value): "if col and col_value" guards the filter.
row_count(table, col, col_value) ==
    LET query == DOMAIN table
    IN IF col # NoneStr /\ bool(col_value)
       THEN Cardinality({i \in query : table[i][col] = col_value})
       ELSE Cardinality(query)

\* --------------------------------------------------------------------- setup
\* The names a class can declare: the columns of the table and one name
\* that is no column.
ColNames == get_col_names \cup {"nocol"}

\* The declarations of a class: time_col_name (NoneStr when not declared)
\* and match_col_names (declared |-> FALSE when it is None).
Declarations == [time_col_name : ColNames \cup {NoneStr},
                 declared : BOOLEAN,
                 match_col_names : SUBSET ColNames]

\* get_col_by_name(name): the column of that name; None (here NoneStr) when
\* the loop ends without a return.
get_col_by_name(name) == IF name \in get_col_names THEN name ELSE NoneStr

\* setup without its closing loop over match_cols.
setup_unchecked(cls) ==
    LET time_col == IF cls.time_col_name # NoneStr
                    THEN get_col_by_name(cls.time_col_name) ELSE NoneStr
        cols == IF cls.declared
                THEN [col_name \in cls.match_col_names |-> get_col_by_name(col_name)]
                ELSE [col_name \in {cls.time_col_name} |-> time_col]
    IN [raised |-> "none", time_col |-> time_col, match_cols |-> cols]

\* setup(): the error it raises, cls.time_col and cls.match_cols (a function
\* from the match column names to their columns).
setup(cls) ==
    LET time_col == IF cls.time_col_name # NoneStr
                    THEN get_col_by_name(cls.time_col_name) ELSE NoneStr
        cols == IF cls.declared
                THEN [col_name \in cls.match_col_names |-> get_col_by_name(col_name)]
                ELSE [col_name \in {cls.time_col_name} |-> time_col]
    IN [raised |-> IF \E col_name \in DOMAIN cols : cols[col_name] = NoneStr
                   THEN "ValueError" ELSE "none",
        time_col |-> time_col, match_cols |-> cols]

\* --------------------------------------------------------- sessions and views
\* A session is known by the number session_maker gave it: the n-th session
\* made is session n.  For an operation on the connection, conn records the
\* session it ran on, and the sessions handed out, the shared query session
\* and the views as they were before it.

\* DB.session(): session_maker() makes a session.
DB_session(made) == [made |-> made + 1, session |-> made + 1]

\* query_session without its "if self._query_session is None".
query_session_not_cached(made, query_sess) ==
    [made |-> made + 1, session |-> made + 1, _query_session |-> made + 1]

\* DB.query_session(): makes the shared session when there is none yet.
DB_query_session(made, query_sess) ==
    IF query_sess = None
    THEN LET s == DB_session(made)
         IN [made |-> s.made, session |-> s.session, _query_session |-> s.session]
    ELSE [made |-> made, session |-> query_sess, _query_session |-> query_sess]

\* The operations that run on db.query_session().
QuerySessionOps == {"find_all", "find_one", "find_id", "get_col_func",
                    "get_col_func_of_max_per_day", "row_count"}

\* The operations that run on db.session().
SessionOps == {"create", "find_or_create", "create_or_update", "create_join_view"}

ViewNames == {"v1", "v2"}

\* The tables a view can join the class with; str(query) names the table.
JoinTables == {"t1", "t2"}

\* No view exists.
NoViews == [n \in {} |-> NoneStr]

\* DROP VIEW IF EXISTS view_name.
_delete_view(views, view_name) == [n \in DOMAIN views \ {view_name} |-> views[n]]

\* CREATE VIEW IF NOT EXISTS view_name AS query_str.
create_view_if_not_exists(views, view_name, query_str) ==
    IF view_name \in DOMAIN views THEN views
    ELSE [n \in DOMAIN views \cup {view_name} |->
             IF n = view_name THEN query_str ELSE views[n]]

\* _create_view without its _delete_view.
create_view_no_delete(views, view_name, query_str) ==
    create_view_if_not_exists(views, view_name, query_str)

_create_view(views, view_name, query_str) ==
    create_view_if_not_exists(_delete_view(views, view_name), view_name, query_str)

\* ---------------------------------------------------------------- TCX import
RECURSIVE SumOfLaps(_)
SumOfLaps(laps) == IF laps = <<>> THEN 0 ELSE Head(laps) + SumOfLaps(Tail(laps))

\* The laps of a TCX file: the number of track points of each lap, in order;
\* every lap has a track point.
TcxLaps == {laps \in UNION {[1..n -> 1..MaxPoints] : n \in 0..MaxPoints} :
               SumOfLaps(laps) <= MaxPoints}

\* The rows of GarminDB and of ActivitiesDB by table; a row is its key.
NoGarminDbRows == [devices |-> {}, files |-> {}]

NoActivitiesDbRows == [activities |-> {}, activity_laps |-> {}, activity_records |-> {}]

\* The one device the files come from.
serial_number == 1

\* A query of a session flushes the session first (the sessions of
\* sessionmaker(bind=engine) autoflush), so that it runs on the stored rows
\* and on the rows the session has added.
visible(db, session) == [t \in DOMAIN db |-> db[t] \cup session[t]]

\* cls.s_exists(session, values_dict): a row with these key values is there.
s_exists(db, session, t, values_dict) ==
    \E row \in visible(db, session)[t] : \A c \in DOMAIN values_dict : row[c] = values_dict[c]

\* cls.s_insert_or_update(session, values_dict): adds the row unless it is
\* there (and updates it if it is, which leaves its key as it was).
s_insert_or_update(db, session, t, values_dict) ==
    IF s_exists(db, session, t, values_dict) THEN session
    ELSE [session EXCEPT ![t] = @ \cup {values_dict}]

\* The state of one __process_file call: the two sessions, the number of
\* calls into the parser and the sessions that still succeed (None: all do)
\* and whether one has raised.
ProcessState(garmin_db_session, garmin_act_db_session, calls_left) ==
    [garmin_db_session |-> garmin_db_session, garmin_act_db_session |-> garmin_act_db_session,
     calls_left |-> calls_left, raised |-> FALSE]

\* One call into the parser or a session: it raises when no call is left to
\* succeed, and nothing runs after a raise.
enter(st) ==
    IF st.raised THEN st
    ELSE IF st.calls_left = 0 THEN [st EXCEPT !.raised = TRUE]
    ELSE IF st.calls_left = None THEN st
    ELSE [st EXCEPT !.calls_left = @ - 1]

__process_record(st, garmin_act_db, activity_id, record_number, lap_number) ==
    LET e == enter(st)
        record == [activity_id |-> activity_id, record |-> record_number]
    IN IF e.raised THEN e
       ELSE IF ~s_exists(garmin_act_db, e.garmin_act_db_session, "activity_records", record)
            THEN [e EXCEPT !.garmin_act_db_session.activity_records = @ \cup {record}]
            ELSE e

\* for record_number, point in enumerate(tcx.get_lap_points(lap)), from
\* record_number on.
RECURSIVE process_lap_points(_, _, _, _, _, _)
process_lap_points(st, garmin_act_db, activity_id, lap_number, record_number, points) ==
    IF record_number >= points THEN st
    ELSE process_lap_points(
             __process_record(st, garmin_act_db, activity_id, record_number, lap_number),
             garmin_act_db, activity_id, lap_number, record_number + 1, points)

__process_lap(st, garmin_act_db, activity_id, lap_number, points) ==
    LET e == enter(process_lap_points(st, garmin_act_db, activity_id, lap_number, 0, points))
        lap_data == [activity_id |-> activity_id, lap |-> lap_number]
    IN IF e.raised THEN e
       ELSE IF ~s_exists(garmin_act_db, e.garmin_act_db_session, "activity_laps", lap_data)
            THEN [e EXCEPT !.garmin_act_db_session.activity_laps = @ \cup {lap_data}]
            ELSE e

\* for lap_number, lap in enumerate(tcx.laps), from the lap at place i on.
RECURSIVE process_file_laps(_, _, _, _, _)
process_file_laps(st, garmin_act_db, file_id, laps, i) ==
    IF i > Len(laps) THEN st
    ELSE process_file_laps(__process_lap(st, garmin_act_db, file_id, i - 1, laps[i]),
                           garmin_act_db, file_id, laps, i + 1)

\* __process_file: tcx.read, the device, the file, the activity, the laps.
__process_file(st, garmin_db, garmin_act_db, file_id, laps) ==
    LET read == enter(st)
        d == enter(read)
        device == IF d.raised THEN d
                  ELSE [d EXCEPT !.garmin_db_session =
                            s_insert_or_update(garmin_db, @, "devices",
                                               [serial_number |-> serial_number])]
        f == enter(device)
        file == IF f.raised THEN f
                ELSE [f EXCEPT !.garmin_db_session =
                          s_insert_or_update(garmin_db, @, "files", [id |-> file_id])]
        a == enter(file)
        activity == IF a.raised THEN a
                    ELSE [a EXCEPT !.garmin_act_db_session =
                              s_insert_or_update(garmin_act_db, @, "activities",
                                                 [activity_id |-> file_id])]
    IN process_file_laps(activity, garmin_act_db, file_id, laps, 1)

\* The calls of one __process_file into the parser and the sessions.
NumCalls(laps) == Cardinality({"read", "device", "file", "activity"}) + SumOfLaps(laps) + Len(laps)

\* session.commit(): the rows the session has added are stored.
session_commit(db, session) == visible(db, session)

\* The two concurrent pipelines.
Pipelines == {1, 2}

\* The dictionaries of one match key, with every column.
SameKeyDicts == {d \in Dicts : DOMAIN d = get_col_names /\ d["day"] \in Days}

\* -------------------------------------------------------------------- state
VARIABLES
    rows,             \* the committed rows of the table; a row's id is its index
    commit_errors,    \* DB.commit_errors, shared by every commit
    pc,               \* "idle", "commit" (inside DB.commit) or "done"
    op,               \* the operation of the current (or last) call
    values_dict,      \* its dictionary
    ignore_none,      \* its ignore_none argument
    sess,             \* its session
    attempts,         \* DB.commit's local counter of failed attempts
    tries,            \* the session.commit() calls made by this DB.commit
    committed,        \* a session.commit() of this call has succeeded
    waits,            \* the time.sleep() arguments of this DB.commit, in order
    raised,           \* the error the call raised, "none" if none
    result,           \* the value the call returned
    not_none_values,  \* instance.not_none_values of the mapped instance
    rows0,            \* the committed rows when the call began
    again,            \* the call repeats the previous find_or_create, which returned normally
    commit_calls,     \* the DB.commit(session) calls the current call has made
    log,              \* what the current DB.commit has done, in order
    table,            \* the rows of the table the aggregate queries run on
    q,                \* the last aggregate query: its arguments and its result
    made,             \* the number of sessions session_maker has made
    _query_session,   \* DB._query_session, None or a session
    sessions,         \* the sessions DB.session() has returned, in order
    views,            \* the views of the database: their query by their name
    conn,             \* the last operation on the connection and the session it ran on
    file_names,       \* self.file_names of GarminTcxData: the ids of the files, in order
    import_pc,        \* where process_files is: "idle", "file", a commit, "done", "raised"
    processed,        \* the files __process_file has been called on, in order
    failed,           \* the files whose __process_file raised
    tcx,              \* the laps of the file last read
    garmin_db,        \* the rows stored in GarminDB
    garmin_act_db,    \* the rows stored in ActivitiesDB
    garmin_db_session,      \* the rows self.garmin_db_session has added
    garmin_act_db_session,  \* the rows self.garmin_act_db_session has added
    commit_log,       \* the commits of process_files: <<file, session, outcome>>, in order
    pipeline          \* the call of each concurrent pipeline: its arguments and locals

db_vars == <<rows, commit_errors, pc, op, values_dict, ignore_none, sess, attempts, tries,
             committed, waits, raised, result, not_none_values, rows0, again, commit_calls,
             log>>

query_vars == <<table, q>>

conn_vars == <<made, _query_session, sessions, views, conn>>

import_vars == <<file_names, import_pc, processed, failed, tcx, garmin_db, garmin_act_db,
                 garmin_db_session, garmin_act_db_session, commit_log>>

pipeline_vars == <<pipeline>>

\* The variables of db_vars that belong to the one caller of Spec.
call_vars == <<commit_errors, pc, op, values_dict, ignore_none, sess, attempts, tries,
               committed, waits, raised, result, not_none_values, rows0, again,
               commit_calls, log>>

vars == <<db_vars, query_vars, conn_vars, import_vars, pipeline_vars>>

\* process_files has not been called.
ImportInit ==
    /\ file_names = <<>>
    /\ import_pc = "idle"
    /\ processed = <<>>
    /\ failed = {}
    /\ tcx = <<>>
    /\ garmin_db = NoGarminDbRows
    /\ garmin_act_db = NoActivitiesDbRows
    /\ garmin_db_session = NoGarminDbRows
    /\ garmin_act_db_session = NoActivitiesDbRows
    /\ commit_log = <<>>

\* No pipeline has begun its call.
PipelineInit ==
    pipeline = [p \in Pipelines |->
                   [pc |-> "idle", op |-> "none", values_dict |-> [k \in {} |-> None],
                    ignore_none |-> FALSE, session |-> Session, id |-> None,
                    instance |-> NewInstance, attempts |-> 0, commit_errors |-> 0,
                    raised |-> "none"]]

\* No query has run and the queried table is empty.
QueryInit ==
    /\ table = <<>>
    /\ q = [op |-> "none"]

\* DB.__init__: no session made, no shared query session; no view yet.
ConnInit ==
    /\ made = 0
    /\ _query_session = None
    /\ sessions = <<>>
    /\ views = NoViews
    /\ conn = [op |-> "none"]

DBInit ==
    /\ rows = <<>>
    /\ commit_errors = 0
    /\ pc = "idle"
    /\ op = "none"
    /\ values_dict = [k \in {} |-> None]
    /\ ignore_none = FALSE
    /\ sess = Session
    /\ attempts = 0
    /\ tries = 0
    /\ committed = FALSE
    /\ waits = <<>>
    /\ raised = "none"
    /\ result = None
    /\ not_none_values = None
    /\ rows0 = <<>>
    /\ again = FALSE
    /\ commit_calls = 0
    /\ log = <<>>

Init == DBInit /\ QueryInit /\ ConnInit /\ ImportInit /\ PipelineInit

\* A call runs up to its DB.commit (or to its end when it does not commit);
\* repeats tells whether it repeats the find_or_create before it.
Call(o, vd, ign, out, repeats) ==
    /\ commit_errors < MaxCommitErrors
    /\ Len(rows) + Len(out.session.new) <= MaxRows
    /\ again' = repeats
    /\ op' = o
    /\ values_dict' = vd
    /\ ignore_none' = ign
    /\ sess' = out.session
    /\ raised' = out.err
    /\ result' = out.result
    /\ not_none_values' = out.not_none_values
    /\ pc' = IF out.commits THEN "commit" ELSE "done"
    /\ commit_calls' = IF out.commits THEN 1 ELSE 0
    /\ log' = <<>>
    /\ rows0' = rows
    /\ attempts' = 0
    /\ tries' = 0
    /\ committed' = FALSE
    /\ waits' = <<>>
    /\ UNCHANGED <<rows, commit_errors>>
    /\ UNCHANGED <<query_vars, conn_vars, import_vars, pipeline_vars>>

\* A call begins, the caller being between two calls.
Begin(o, vd, ign, out) == pc = "idle" /\ Call(o, vd, ign, out, FALSE)

\* The caller repeats the find_or_create that has just returned normally,
\* with the same dictionary.
find_or_create_again ==
    /\ pc = "done"
    /\ op = "find_or_create"
    /\ raised = "none"
    /\ Call("find_or_create", values_dict, FALSE, find_or_create_call(rows, values_dict), TRUE)

create ==
    \E vd \in Dicts, ign \in BOOLEAN : Begin("create", vd, ign, create_call(rows, vd, ign))

find_or_create ==
    \E vd \in Dicts : Begin("find_or_create", vd, FALSE, find_or_create_call(rows, vd))

create_or_update ==
    \E vd \in Dicts, ign \in BOOLEAN :
        Begin("create_or_update", vd, ign, create_or_update_call(rows, vd, ign))

create_or_update_not_none ==
    \E vd \in Dicts :
        Begin("create_or_update_not_none", vd, TRUE, create_or_update_call(rows, vd, TRUE))

find_one ==
    \E vd \in Dicts : Begin("find_one", vd, FALSE, find_one_call(rows, vd))

find_all ==
    \E vd \in Dicts : Begin("find_all", vd, FALSE, find_all_call(rows, vd))

find_id ==
    \E vd \in Dicts : Begin("find_id", vd, FALSE, find_id_call(rows, vd))

\* ---------------------------------------------------------------- DB.commit
\* while attempts < DB.max_commit_attempts: session.commit() succeeds.
commit_ok ==
    /\ pc = "commit"
    /\ attempts < max_commit_attempts
    /\ tries' = tries + 1
    /\ rows' = session_flush(rows, sess)
    /\ sess' = session_close([sess EXCEPT !.new = <<>>, !.dirty = <<>>])
    /\ committed' = TRUE
    /\ log' = log \o <<"commit", "close">>
    /\ pc' = "done"
    /\ UNCHANGED <<commit_errors, op, values_dict, ignore_none, attempts, waits, raised,
                   result, not_none_values, rows0, again, commit_calls>>
    /\ UNCHANGED <<query_vars, conn_vars, import_vars, pipeline_vars>>

\* A failed session.commit() whose flushed writes stay in the table.
commit_OperationalError_keeps_flush ==
    /\ pc = "commit"
    /\ attempts < max_commit_attempts
    /\ tries' = tries + 1
    /\ attempts' = attempts + 1
    /\ rows' = session_flush(rows, sess)
    /\ sess' = session_rollback(sess)
    /\ commit_errors' = commit_errors + 1
    /\ waits' = Append(waits, attempts')
    /\ log' = log \o <<"commit", "rollback", "commit_errors", "sleep">>
    /\ UNCHANGED <<pc, op, values_dict, ignore_none, committed, raised, result,
                   not_none_values, rows0, again, commit_calls>>
    /\ UNCHANGED <<query_vars, conn_vars, import_vars, pipeline_vars>>

\* A failed session.commit() after which the added rows stay in the table.
commit_OperationalError_stores_new ==
    /\ pc = "commit"
    /\ attempts < max_commit_attempts
    /\ tries' = tries + 1
    /\ attempts' = attempts + 1
    /\ rows' = rows \o sess.new
    /\ sess' = session_rollback(sess)
    /\ commit_errors' = commit_errors + 1
    /\ waits' = Append(waits, attempts')
    /\ log' = log \o <<"commit", "rollback", "commit_errors", "sleep">>
    /\ UNCHANGED <<pc, op, values_dict, ignore_none, committed, raised, result,
                   not_none_values, rows0, again, commit_calls>>
    /\ UNCHANGED <<query_vars, conn_vars, import_vars, pipeline_vars>>

\* The except clause with time.sleep(1) in place of time.sleep(attempts).
commit_OperationalError_constant_wait ==
    /\ pc = "commit"
    /\ attempts < max_commit_attempts
    /\ tries' = tries + 1
    /\ attempts' = attempts + 1
    /\ sess' = session_rollback(sess)
    /\ commit_errors' = commit_errors + 1
    /\ waits' = Append(waits, 1)
    /\ log' = log \o <<"commit", "rollback", "commit_errors", "sleep">>
    /\ UNCHANGED <<rows, pc, op, values_dict, ignore_none, committed, raised, result,
                   not_none_values, rows0, again, commit_calls>>
    /\ UNCHANGED <<query_vars, conn_vars, import_vars, pipeline_vars>>

\* session.commit() raises OperationalError: the except clause.
commit_OperationalError ==
    /\ pc = "commit"
    /\ attempts < max_commit_attempts
    /\ tries' = tries + 1
    /\ attempts' = attempts + 1
    /\ sess' = session_rollback(sess)
    /\ commit_errors' = commit_errors + 1
    /\ waits' = Append(waits, attempts')
    /\ log' = log \o <<"commit", "rollback", "commit_errors", "sleep">>
    /\ UNCHANGED <<rows, pc, op, values_dict, ignore_none, committed, raised, result,
                   not_none_values, rows0, again, commit_calls>>
    /\ UNCHANGED <<query_vars, conn_vars, import_vars, pipeline_vars>>

\* An except clause that counts every error before it lets it through.
commit_other_error_counted ==
    /\ pc = "commit"
    /\ attempts < max_commit_attempts
    /\ tries' = tries + 1
    /\ commit_errors' = commit_errors + 1
    /\ log' = log \o <<"commit", "commit_errors">>
    /\ raised' = "Error"
    /\ pc' = "done"
    /\ UNCHANGED <<rows, op, values_dict, ignore_none, sess, attempts,
                   committed, waits, result, not_none_values, rows0, again, commit_calls>>
    /\ UNCHANGED <<query_vars, conn_vars, import_vars, pipeline_vars>>

\* session.commit() raises an error that is no OperationalError: not caught.
commit_other_error ==
    /\ pc = "commit"
    /\ attempts < max_commit_attempts
    /\ tries' = tries + 1
    /\ log' = Append(log, "commit")
    /\ raised' = "Error"
    /\ pc' = "done"
    /\ UNCHANGED <<rows, commit_errors, op, values_dict, ignore_none, sess, attempts,
                   committed, waits, result, not_none_values, rows0, again, commit_calls>>
    /\ UNCHANGED <<query_vars, conn_vars, import_vars, pipeline_vars>>

\* The loop ends without a return: raise IOError("Failed to commit").
commit_IOError ==
    /\ pc = "commit"
    /\ ~(attempts < max_commit_attempts)
    /\ raised' = "IOError"
    /\ pc' = "done"
    /\ UNCHANGED <<rows, commit_errors, op, values_dict, ignore_none, sess, attempts,
                   tries, committed, waits, result, not_none_values, rows0, again,
                   commit_calls, log>>
    /\ UNCHANGED <<query_vars, conn_vars, import_vars, pipeline_vars>>

\* The call is over and its locals are gone; the caller may make the next
\* one.
Return ==
    /\ pc = "done"
    /\ pc' = "idle"
    /\ op' = "none"
    /\ values_dict' = [k \in {} |-> None]
    /\ ignore_none' = FALSE
    /\ sess' = Session
    /\ attempts' = 0
    /\ tries' = 0
    /\ committed' = FALSE
    /\ waits' = <<>>
    /\ raised' = "none"
    /\ result' = None
    /\ not_none_values' = None
    /\ rows0' = rows
    /\ again' = FALSE
    /\ commit_calls' = 0
    /\ log' = <<>>
    /\ UNCHANGED <<rows, commit_errors>>
    /\ UNCHANGED <<query_vars, conn_vars, import_vars, pipeline_vars>>

Next ==
    \/ create
    \/ find_or_create
    \/ find_or_create_again
    \/ create_or_update
    \/ create_or_update_not_none
    \/ find_one
    \/ find_all
    \/ find_id
    \/ commit_ok
    \/ commit_OperationalError
    \/ commit_other_error
    \/ commit_IOError
    \/ Return

Spec == Init /\ [][Next]_vars

\* ------------------------------------------------------- the upserting caller
\* A caller that never calls create: it only finds, and adds rows through
\* find_or_create, create_or_update and create_or_update_not_none.
NextUpsert ==
    \/ find_or_create
    \/ find_or_create_again
    \/ create_or_update
    \/ create_or_update_not_none
    \/ find_one
    \/ commit_ok
    \/ commit_OperationalError
    \/ commit_other_error
    \/ commit_IOError
    \/ Return

SpecUpsert == Init /\ [][NextUpsert]_vars

\* ------------------------------------------------------- the aggregate queries
\* The table holds any rows; the caller runs one query at a time.
InitQuery ==
    /\ DBInit /\ ConnInit /\ ImportInit /\ PipelineInit
    /\ table \in Tables /\ q = [op |-> "none"]

call_get_col_func ==
    \E func \in Funcs, start_ts \in {None} \cup RangeBounds, end_ts \in {None} \cup RangeBounds,
       ignore_le_zero \in BOOLEAN :
        /\ q.op = "none"
        /\ q' = [op |-> "get_col_func", func |-> func, start_ts |-> start_ts,
                 end_ts |-> end_ts, ignore_le_zero |-> ignore_le_zero,
                 result |-> get_col_func(table, func, start_ts, end_ts, ignore_le_zero)]
        /\ UNCHANGED <<table, db_vars, conn_vars, import_vars, pipeline_vars>>

call_get_col_func_of_max_per_day ==
    \E stat_func \in Funcs, start_ts \in RangeBounds, end_ts \in RangeBounds :
        /\ q.op = "none"
        /\ q' = [op |-> "get_col_func_of_max_per_day", func |-> stat_func,
                 start_ts |-> start_ts, end_ts |-> end_ts,
                 groups |-> max_daily_query(table, start_ts, end_ts),
                 result |-> get_col_func_of_max_per_day(table, stat_func, start_ts, end_ts)]
        /\ UNCHANGED <<table, db_vars, conn_vars, import_vars, pipeline_vars>>

call_get_col_func_of_max_per_day_for_value ==
    \E stat_func \in Funcs, match_col \in MatchCols, match_value \in MatchValues,
       start_ts \in ValueRangeBounds, end_ts \in ValueRangeBounds :
        /\ q.op = "none"
        /\ q' = [op |-> "get_col_func_of_max_per_day_for_value", func |-> stat_func,
                 match_col |-> match_col, match_value |-> match_value,
                 start_ts |-> start_ts, end_ts |-> end_ts,
                 groups |-> max_daily_query_for_value(table, match_col, match_value,
                                                      start_ts, end_ts),
                 result |-> get_col_func_of_max_per_day_for_value(
                                table, stat_func, match_col, match_value, start_ts, end_ts)]
        /\ UNCHANGED <<table, db_vars, conn_vars, import_vars, pipeline_vars>>

call_get_col_func_for_value ==
    \E stat_func \in Funcs, match_col \in MatchCols, match_value \in MatchValues,
       start_ts \in {None} \cup ValueRangeBounds, end_ts \in {None} \cup ValueRangeBounds,
       ignore_le_zero \in BOOLEAN :
        /\ q.op = "none"
        /\ q' = [op |-> "get_col_func_for_value", func |-> stat_func,
                 match_col |-> match_col, match_value |-> match_value,
                 start_ts |-> start_ts, end_ts |-> end_ts, ignore_le_zero |-> ignore_le_zero,
                 result |-> get_col_func_for_value(table, stat_func, match_col, match_value,
                                                   start_ts, end_ts, ignore_le_zero)]
        /\ UNCHANGED <<table, db_vars, conn_vars, import_vars, pipeline_vars>>

call_get_col_func_greater_than_value ==
    \E stat_func \in Funcs, match_col \in MatchCols, match_value \in MatchValues,
       start_ts \in {None} \cup ValueRangeBounds, end_ts \in {None} \cup ValueRangeBounds,
       ignore_le_zero \in BOOLEAN :
        /\ q.op = "none"
        /\ q' = [op |-> "get_col_func_greater_than_value", func |-> stat_func,
                 match_col |-> match_col, match_value |-> match_value,
                 start_ts |-> start_ts, end_ts |-> end_ts, ignore_le_zero |-> ignore_le_zero,
                 result |-> get_col_func_greater_than_value(
                                table, stat_func, match_col, match_value,
                                start_ts, end_ts, ignore_le_zero)]
        /\ UNCHANGED <<table, db_vars, conn_vars, import_vars, pipeline_vars>>

call_get_col_func_less_than_value ==
    \E stat_func \in Funcs, match_col \in MatchCols, match_value \in MatchValues,
       start_ts \in {None} \cup ValueRangeBounds, end_ts \in {None} \cup ValueRangeBounds,
       ignore_le_zero \in BOOLEAN :
        /\ q.op = "none"
        /\ q' = [op |-> "get_col_func_less_than_value", func |-> stat_func,
                 match_col |-> match_col, match_value |-> match_value,
                 start_ts |-> start_ts, end_ts |-> end_ts, ignore_le_zero |-> ignore_le_zero,
                 result |-> get_col_func_less_than_value(
                                table, stat_func, match_col, match_value,
                                start_ts, end_ts, ignore_le_zero)]
        /\ UNCHANGED <<table, db_vars, conn_vars, import_vars, pipeline_vars>>

call_row_count ==
    \E col \in {NoneStr, "hr"}, col_value \in {None} \cup HrValues :
        /\ q.op = "none"
        /\ q' = [op |-> "row_count", col |-> col, col_value |-> col_value,
                 result |-> row_count(table, col, col_value)]
        /\ UNCHANGED <<table, db_vars, conn_vars, import_vars, pipeline_vars>>

\* The caller has taken the result.
query_return ==
    /\ q.op # "none"
    /\ q' = [op |-> "none"]
    /\ UNCHANGED <<table, db_vars, conn_vars, import_vars, pipeline_vars>>

NextQuery ==
    \/ call_get_col_func
    \/ call_get_col_func_of_max_per_day
    \/ call_row_count
    \/ query_return

SpecQuery == InitQuery /\ [][NextQuery]_vars

\* The queries that filter by a match column, and the daily-maximum queries.
NextForValue ==
    \/ call_get_col_func_of_max_per_day
    \/ call_get_col_func_of_max_per_day_for_value
    \/ call_get_col_func_for_value
    \/ call_get_col_func_greater_than_value
    \/ call_get_col_func_less_than_value
    \/ query_return

SpecForValue == InitQuery /\ [][NextForValue]_vars

\* ---------------------------------------------------- the connection's sessions
\* An operation of QuerySessionOps takes its session from db.query_session().
run_on_query_session ==
    \E o \in QuerySessionOps :
        LET r == DB_query_session(made, _query_session)
        IN /\ r.made <= MaxSessions
           /\ made' = r.made
           /\ _query_session' = r._query_session
           /\ sessions' = IF r.made > made THEN Append(sessions, r.session) ELSE sessions
           /\ conn' = [op |-> o, session |-> r.session, sessions0 |-> sessions,
                       query_session0 |-> _query_session]
           /\ UNCHANGED <<views, db_vars, query_vars, import_vars, pipeline_vars>>

\* create, find_or_create and create_or_update take theirs from db.session().
run_on_session ==
    \E o \in SessionOps \ {"create_join_view"} :
        LET r == DB_session(made)
        IN /\ r.made <= MaxSessions
           /\ made' = r.made
           /\ sessions' = Append(sessions, r.session)
           /\ conn' = [op |-> o, session |-> r.session, sessions0 |-> sessions,
                       query_session0 |-> _query_session]
           /\ UNCHANGED <<_query_session, views, db_vars, query_vars, import_vars, pipeline_vars>>

\* create_join_view(db, view_name, join_table): the query of db.session(),
\* then _create_view with str(query).
create_join_view ==
    \E view_name \in ViewNames, join_table \in JoinTables :
        LET r == DB_session(made)
        IN /\ r.made <= MaxSessions
           /\ made' = r.made
           /\ sessions' = Append(sessions, r.session)
           /\ views' = _create_view(views, view_name, join_table)
           /\ conn' = [op |-> "create_join_view", session |-> r.session,
                       sessions0 |-> sessions, query_session0 |-> _query_session,
                       view_name |-> view_name, query_str |-> join_table,
                       views0 |-> views]
           /\ UNCHANGED <<_query_session, db_vars, query_vars, import_vars, pipeline_vars>>

\* A class registers itself: setup() on its declarations.
call_setup ==
    \E cls \in Declarations :
        /\ conn' = [op |-> "setup", cls |-> cls, result |-> setup(cls)]
        /\ UNCHANGED <<made, _query_session, sessions, views, db_vars, query_vars, import_vars, pipeline_vars>>

NextConn ==
    \/ run_on_query_session
    \/ run_on_session
    \/ create_join_view
    \/ call_setup

SpecConn == Init /\ [][NextConn]_vars

\* ------------------------------------------------ GarminTcxData.process_files
\* process_files on a list of one to MaxFiles files, inside its loop; the id
\* of a file is its place in the list.  What a file holds is known when
\* __process_file reads it.
InitTcx ==
    /\ DBInit /\ QueryInit /\ ConnInit /\ PipelineInit
    /\ file_names \in {[i \in 1..n |-> i] : n \in 1..MaxFiles}
    /\ import_pc = "file"
    /\ processed = <<>>
    /\ failed = {}
    /\ tcx = <<>>
    /\ garmin_db = NoGarminDbRows
    /\ garmin_act_db = NoActivitiesDbRows
    /\ garmin_db_session = NoGarminDbRows
    /\ garmin_act_db_session = NoActivitiesDbRows
    /\ commit_log = <<>>

\* The try statement with __process_file(file_name); calls_left is None when
\* every call of __process_file succeeds.
try_process_file(laps, calls_left, next_pc) ==
    LET file_id == file_names[Len(processed) + 1]
        st == __process_file(ProcessState(garmin_db_session, garmin_act_db_session, calls_left),
                             garmin_db, garmin_act_db, file_id, laps)
    IN /\ import_pc = "file"
       /\ st.raised = (calls_left # None)
       /\ tcx' = laps
       /\ processed' = Append(processed, file_id)
       /\ failed' = IF st.raised THEN failed \cup {file_id} ELSE failed
       /\ garmin_db_session' = st.garmin_db_session
       /\ garmin_act_db_session' = st.garmin_act_db_session
       /\ import_pc' = next_pc
       /\ UNCHANGED <<file_names, garmin_db, garmin_act_db, commit_log>>
       /\ UNCHANGED <<db_vars, query_vars, conn_vars, pipeline_vars>>

\* __process_file returns.
process_file ==
    \E laps \in TcxLaps : try_process_file(laps, None, "garmin_db_session.commit")

\* A try statement with no except clause: the error of __process_file leaves
\* process_files.
process_file_uncaught ==
    \E laps \in TcxLaps : \E calls_left \in 0..(NumCalls(laps) - 1) :
        try_process_file(laps, calls_left, "raised")

\* __process_file raises at one of its calls, with what the earlier calls
\* added still in the sessions; except Exception logs the error.
process_file_except ==
    \E laps \in TcxLaps : \E calls_left \in 0..(NumCalls(laps) - 1) :
        try_process_file(laps, calls_left, "garmin_db_session.commit")

\* self.garmin_db_session.commit() returns.
garmin_db_session_commit ==
    /\ import_pc = "garmin_db_session.commit"
    /\ garmin_db' = session_commit(garmin_db, garmin_db_session)
    /\ garmin_db_session' = NoGarminDbRows
    /\ commit_log' = Append(commit_log, <<Len(processed), "garmin_db_session", "ok">>)
    /\ import_pc' = "garmin_act_db_session.commit"
    /\ UNCHANGED <<file_names, processed, failed, tcx, garmin_act_db, garmin_act_db_session>>
    /\ UNCHANGED <<db_vars, query_vars, conn_vars, pipeline_vars>>

\* self.garmin_db_session.commit() raises: nothing catches it.
garmin_db_session_commit_raises ==
    /\ import_pc = "garmin_db_session.commit"
    /\ commit_log' = Append(commit_log, <<Len(processed), "garmin_db_session", "raised">>)
    /\ import_pc' = "raised"
    /\ UNCHANGED <<file_names, processed, failed, tcx, garmin_db, garmin_act_db,
                   garmin_db_session, garmin_act_db_session>>
    /\ UNCHANGED <<db_vars, query_vars, conn_vars, pipeline_vars>>

\* self.garmin_act_db_session.commit() returns; the loop goes on to the next
\* file or ends.
garmin_act_db_session_commit ==
    /\ import_pc = "garmin_act_db_session.commit"
    /\ garmin_act_db' = session_commit(garmin_act_db, garmin_act_db_session)
    /\ garmin_act_db_session' = NoActivitiesDbRows
    /\ commit_log' = Append(commit_log, <<Len(processed), "garmin_act_db_session", "ok">>)
    /\ import_pc' = IF Len(processed) < Len(file_names) THEN "file" ELSE "done"
    /\ UNCHANGED <<file_names, processed, failed, tcx, garmin_db, garmin_db_session>>
    /\ UNCHANGED <<db_vars, query_vars, conn_vars, pipeline_vars>>

\* self.garmin_act_db_session.commit() raises: nothing catches it.
garmin_act_db_session_commit_raises ==
    /\ import_pc = "garmin_act_db_session.commit"
    /\ commit_log' = Append(commit_log, <<Len(processed), "garmin_act_db_session", "raised">>)
    /\ import_pc' = "raised"
    /\ UNCHANGED <<file_names, processed, failed, tcx, garmin_db, garmin_act_db,
                   garmin_db_session, garmin_act_db_session>>
    /\ UNCHANGED <<db_vars, query_vars, conn_vars, pipeline_vars>>

NextTcx ==
    \/ process_file
    \/ process_file_except
    \/ garmin_db_session_commit
    \/ garmin_db_session_commit_raises
    \/ garmin_act_db_session_commit
    \/ garmin_act_db_session_commit_raises

SpecTcx == InitTcx /\ [][NextTcx]_vars

\* ------------------------------------------------------ concurrent pipelines
\* Two pipelines, each with its own DB and its own session from db.session(),
\* each in a process of its own, make one find_or_create or create_or_update
\* call each on the one table, for the same match key.  A step of a pipeline
\* is one statement of its call; between two steps the other pipeline may run.

\* find_or_create(db, values_dict) or create_or_update(db, values_dict,
\* ignore_none) begins: session = db.session().
pipeline_call(p) ==
    \E o \in {"find_or_create", "create_or_update"}, vd \in SameKeyDicts, ign \in BOOLEAN :
        /\ pipeline[p].pc = "idle"
        /\ o = "find_or_create" => ~ign
        /\ pipeline' = [pipeline EXCEPT ![p] = [@ EXCEPT !.pc = "_find_one", !.op = o,
                                                         !.values_dict = vd,
                                                         !.ignore_none = ign]]
        /\ UNCHANGED <<rows, call_vars, query_vars, conn_vars, import_vars>>

\* cls._find_one(session, values_dict) on the rows committed so far.
pipeline_find_one(p) ==
    LET f == _find_one(rows, pipeline[p].values_dict)
    IN /\ pipeline[p].pc = "_find_one"
       /\ pipeline' = [pipeline EXCEPT ![p] =
              IF f.err # "none" THEN [@ EXCEPT !.pc = "done", !.raised = f.err]
              ELSE [@ EXCEPT !.pc = "found", !.id = f.id,
                             !.instance = IF f.id = None THEN NewInstance ELSE rows[f.id]]]
       /\ UNCHANGED <<rows, call_vars, query_vars, conn_vars, import_vars>>

\* The statement after _find_one: _create(db, session, values_dict) for no
\* row found, instance._from_dict(values_dict, ignore_none) in
\* create_or_update for a row found, the return of find_or_create for a row
\* found.
pipeline_create_or_update(p) ==
    LET self == pipeline[p]
        r == _create(self.session, self.values_dict, self.ignore_none)
        u == _from_dict(self.instance, self.values_dict, self.ignore_none)
    IN /\ self.pc = "found"
       /\ pipeline' = [pipeline EXCEPT ![p] =
              IF self.id = None
              THEN IF r.err # "none" THEN [@ EXCEPT !.pc = "done", !.raised = r.err]
                   ELSE [@ EXCEPT !.pc = "commit", !.session = r.session]
              ELSE IF self.op = "find_or_create" THEN [@ EXCEPT !.pc = "done"]
              ELSE [@ EXCEPT !.pc = "commit",
                             !.session = session_set(self.session, self.id, u.inst)]]
       /\ UNCHANGED <<rows, call_vars, query_vars, conn_vars, import_vars>>

\* DB.commit(session): session.commit() succeeds.
pipeline_commit_ok(p) ==
    /\ pipeline[p].pc = "commit"
    /\ pipeline[p].attempts < max_commit_attempts
    /\ rows' = session_flush(rows, pipeline[p].session)
    /\ pipeline' = [pipeline EXCEPT ![p] = [@ EXCEPT !.pc = "done", !.session = session_close(Session)]]
    /\ UNCHANGED <<call_vars, query_vars, conn_vars, import_vars>>

\* DB.commit(session): session.commit() raises OperationalError; rollback,
\* the error counter of the pipeline's process, the sleep, the next attempt.
pipeline_commit_OperationalError(p) ==
    /\ pipeline[p].pc = "commit"
    /\ pipeline[p].attempts < max_commit_attempts
    /\ pipeline' = [pipeline EXCEPT ![p] = [@ EXCEPT !.attempts = @ + 1,
                                                     !.commit_errors = @ + 1,
                                                     !.session = session_rollback(@)]]
    /\ UNCHANGED <<rows, call_vars, query_vars, conn_vars, import_vars>>

\* DB.commit(session): session.commit() raises another error.
pipeline_commit_other_error(p) ==
    /\ pipeline[p].pc = "commit"
    /\ pipeline[p].attempts < max_commit_attempts
    /\ pipeline' = [pipeline EXCEPT ![p] = [@ EXCEPT !.pc = "done", !.raised = "Error"]]
    /\ UNCHANGED <<rows, call_vars, query_vars, conn_vars, import_vars>>

\* DB.commit(session): the attempts are used up.
pipeline_commit_IOError(p) ==
    /\ pipeline[p].pc = "commit"
    /\ ~(pipeline[p].attempts < max_commit_attempts)
    /\ pipeline' = [pipeline EXCEPT ![p] = [@ EXCEPT !.pc = "done", !.raised = "IOError"]]
    /\ UNCHANGED <<rows, call_vars, query_vars, conn_vars, import_vars>>

NextPipelines ==
    \E p \in Pipelines :
        \/ pipeline_call(p)
        \/ pipeline_find_one(p)
        \/ pipeline_create_or_update(p)
        \/ pipeline_commit_ok(p)
        \/ pipeline_commit_OperationalError(p)
        \/ pipeline_commit_other_error(p)
        \/ pipeline_commit_IOError(p)

SpecPipelines == Init /\ [][NextPipelines]_vars

\* =============================================================== properties

\* What the current call did before it committed, as its operation computes
\* it from the rows the call began with.
CallOutcome ==
    CASE op = "create" -> create_call(rows0, values_dict, ignore_none)
      [] op = "find_or_create" -> find_or_create_call(rows0, values_dict)
      [] op \in {"create_or_update", "create_or_update_not_none"} ->
             create_or_update_call(rows0, values_dict, ignore_none)
      [] op = "find_all" -> find_all_call(rows0, values_dict)
      [] op = "find_id" -> find_id_call(rows0, values_dict)
      [] OTHER -> find_one_call(rows0, values_dict)

\* The ids of the rows of a table that have the day of a dictionary.
SameKey(store, d) == {i \in 1..Len(store) : store[i]["day"] = d["day"]}

\* The keys of a dictionary that carry a value other than None.
NotNoneKeys(d) == {k \in DOMAIN d : d[k] # None}

\* The keys of a dictionary that name a column and carry a value other than None.
InSchemaNotNoneKeys(d) == {k \in DOMAIN d : k \in {"day", "steps"} /\ d[k] # None}

\* C1: a DB.commit whose session.commit() raises OperationalError at every
\* attempt makes exactly 5 attempts and then raises IOError; no DB.commit
\* ever makes a 6th attempt, and IOError is raised only after 5 failures.
C1_RetryBound ==
    /\ tries <= 5
    /\ (pc = "done" /\ tries > 0 /\ attempts = tries) => (tries = 5 /\ raised = "IOError")
    /\ raised = "IOError" => (attempts = 5 /\ tries = 5 /\ ~committed)

C1_Witness == pc = "done" /\ tries = 5 /\ attempts = 5 /\ raised = "IOError"

\* C2: a DB.commit whose session.commit() fails transiently k-1 times and
\* succeeds at attempt k <= 5 returns normally after k-1 retries and has
\* closed the session; a session is closed only by the successful attempt.
C2_SuccessAfterRetries ==
    /\ (pc = "done" /\ committed) =>
           /\ raised = "none"
           /\ sess.closed
           /\ tries <= 5
           /\ attempts = tries - 1
           /\ Len(waits) = tries - 1
    /\ sess.closed => (committed /\ pc = "done")

C2_Witness ==
    pc = "done" /\ committed /\ tries = 3 /\ attempts = 2 /\ sess.closed /\ raised = "none"

\* C3: whenever DB.commit returns normally after one or more transient
\* failures, every write that was pending in the session when DB.commit was
\* called is persisted: the table is the table the call began with plus the
\* rows the call added and the changes it made.
C3_RetryKeepsWrites ==
    (pc = "done" /\ committed /\ attempts > 0 /\ raised = "none") =>
        rows = session_flush(rows0, CallOutcome.session)

\* C4: when find_or_create(m) has returned normally twice in a row with the
\* same m, exactly one row has m's match-key values; and a find_or_create
\* that finds a row with its match-key values (whatever its other fields)
\* adds no row and leaves every row as it was.
C4_FindOrCreateIdempotent ==
    (pc = "done" /\ op = "find_or_create" /\ raised = "none") =>
        /\ again => Cardinality(SameKey(rows, values_dict)) = 1
        /\ SameKey(rows0, values_dict) # {} => rows = rows0

\* C5: when create_or_update with ignore_none = TRUE (create_or_update_not_none)
\* has returned normally for a dictionary m that matches one existing row,
\* no column of that row that was not None is None, every column that is no
\* key of m is as it was, and every column m gives a value other than None
\* has that value.
C5_NullPreservation ==
    (/\ pc = "done"
     /\ op \in {"create_or_update", "create_or_update_not_none"}
     /\ ignore_none
     /\ raised = "none"
     /\ "day" \in DOMAIN values_dict
     /\ Cardinality(SameKey(rows0, values_dict)) = 1) =>
        \A i \in SameKey(rows0, values_dict) : \A c \in {"day", "steps"} :
            /\ rows0[i][c] # None => rows[i][c] # None
            /\ c \notin DOMAIN values_dict => rows[i][c] = rows0[i][c]
            /\ (c \in DOMAIN values_dict /\ values_dict[c] # None) => rows[i][c] = values_dict[c]

\* C6: create(m) with fewer than min_row_values keys that name a column and
\* carry a value other than None raises ValueError, calls no commit and
\* leaves the table as it was.
C6_CreateRejectsBelowMinimum ==
    (pc = "done" /\ op = "create"
     /\ Cardinality(InSchemaNotNoneKeys(values_dict)) < min_row_values) =>
        (raised = "ValueError" /\ tries = 0 /\ rows = rows0)

C8_CreateToleratesBelowMinimum ==
    (pc = "done" /\ op = "create" /\ ignore_none
     /\ Cardinality(NotNoneKeys(values_dict)) < min_row_values) =>
        (raised # "ValueError" /\ rows = rows0)

\* C9: when two or more rows have the match-key values of m, find_one(m)
\* raises MultipleResultsFound and returns no row, and find_or_create(m) and
\* create_or_update(m) raise it too, before they add or change anything or
\* call commit.
C9_DuplicateKeyRaises ==
    (/\ pc # "idle"
     /\ op \in {"find_one", "find_or_create", "create_or_update", "create_or_update_not_none"}
     /\ "day" \in DOMAIN values_dict
     /\ Cardinality(SameKey(rows0, values_dict)) >= 2) =>
        /\ pc = "done"
        /\ raised = "MultipleResultsFound"
        /\ result = None
        /\ rows = rows0
        /\ sess.new = <<>> /\ sess.dirty = <<>>
        /\ tries = 0

C9_Witness ==
    /\ pc = "done"
    /\ op \in {"find_one", "create_or_update"}
    /\ "day" \in DOMAIN values_dict
    /\ Cardinality(SameKey(rows0, values_dict)) = 2
    /\ \E i, j \in SameKey(rows0, values_dict) : rows0[i] # rows0[j]
    /\ raised = "MultipleResultsFound"

\* C10: the not_none_values of a mapped instance is the number of keys of
\* the dictionary that name a column and carry a value other than None.
C10_NotNoneCount ==
    not_none_values # None =>
        not_none_values = Cardinality(InSchemaNotNoneKeys(values_dict))

\* The current call is a create_or_update that has ended in one of its four
\* branches: its dictionary has the match column and _find_one found at
\* most one row.
CreateOrUpdateEnded ==
    /\ pc = "done"
    /\ op \in {"create_or_update", "create_or_update_not_none"}
    /\ "day" \in DOMAIN values_dict
    /\ Cardinality(SameKey(rows0, values_dict)) <= 1

\* The branch of create_or_update that rejects its dictionary: no row
\* found, fewer values other than None than min_row_values, ignore_none false.
RejectBranch ==
    /\ SameKey(rows0, values_dict) = {}
    /\ Cardinality(NotNoneKeys(values_dict)) < 1
    /\ ~ignore_none

\* C11 as stated: every branch of create_or_update (the one that creates a
\* row, the one that silently drops a dictionary under the minimum, the one
\* that rejects a dictionary under the minimum, the one that updates the row
\* found) ends in exactly one DB.commit of the call's session.
C11_EveryBranchCommits == CreateOrUpdateEnded => commit_calls = 1

\* C11: every branch of create_or_update that raises nothing before its
\* commit (create, silent drop, update) ends in exactly one DB.commit of the
\* call's session; the branch that rejects a dictionary under the minimum
\* raises ValueError and calls DB.commit not at all.
C11_BranchesCommitUnlessRejected ==
    CreateOrUpdateEnded =>
        /\ ~RejectBranch => (commit_calls = 1 /\ tries >= 1 /\ raised # "ValueError")
        /\ RejectBranch => (commit_calls = 0 /\ tries = 0 /\ raised = "ValueError")

C11_Witness ==
    /\ CreateOrUpdateEnded
    /\ SameKey(rows0, values_dict) # {}
    /\ commit_calls = 1
    /\ committed

\* C12: for a range [start_ts, end_ts) and each of min, max, avg and sum,
\* get_col_func takes into account exactly the rows with
\* start_ts <= timestamp < end_ts (of them those above zero when
\* ignore_le_zero is set): a row at start_ts counts, a row at end_ts does not.
C12_HalfOpenRange ==
    (q.op = "get_col_func" /\ q.start_ts # None /\ q.end_ts # None) =>
        LET in_range == {i \in DOMAIN table : q.start_ts <= table[i].timestamp
                                              /\ table[i].timestamp < q.end_ts}
            counted == {i \in in_range : q.ignore_le_zero => table[i].hr > 0}
        IN /\ q.result.rows = counted
           /\ q.result.scalar = sql_func(q.func, [i \in counted |-> table[i].hr], counted)

C12_Witness ==
    /\ q.op = "get_col_func"
    /\ q.func = "sum"
    /\ ~q.ignore_le_zero
    /\ q.start_ts # None
    /\ q.end_ts # None
    /\ \E i, j \in DOMAIN table :
           /\ table[i].timestamp = q.start_ts
           /\ table[j].timestamp = q.end_ts
           /\ table[j].hr > 0
           /\ i \in q.result.rows
           /\ j \notin q.result.rows
           /\ q.result.scalar = table[i].hr

\* The calendar day of a timestamp: its year and its day of the year.
CalendarDay(timestamp) == <<Calendar[timestamp].year, Calendar[timestamp].yday>>

\* The calendar days that have rows inside the range of the last query.
DaysWithRows ==
    {CalendarDay(table[i].timestamp) :
        i \in {j \in DOMAIN table : q.start_ts <= table[j].timestamp
                                    /\ table[j].timestamp < q.end_ts}}

\* The greatest hr of the rows of a calendar day inside the range.
DailyMax(day) ==
    LET of_day == {i \in DOMAIN table : /\ q.start_ts <= table[i].timestamp
                                        /\ table[i].timestamp < q.end_ts
                                        /\ CalendarDay(table[i].timestamp) = day}
    IN CHOOSE v \in {table[i].hr : i \in of_day} : \A i \in of_day : v >= table[i].hr

\* C13: for any rows inside [start_ts, end_ts), get_col_func_of_max_per_day
\* is stat_func over the collection that holds one maximum of the column for
\* each day that has rows.
C13_FuncOfDailyMax ==
    q.op = "get_col_func_of_max_per_day" =>
        q.result = sql_func(q.func, [day \in DaysWithRows |-> DailyMax(day)], DaysWithRows)

\* C14: find_all, find_one and find_id raise KeyError whenever the
\* dictionary lacks a match column; find_or_create and create_or_update
\* raise it as well, before they add or change anything and without a commit.
C14_MissingMatchColumn ==
    (/\ pc # "idle"
     /\ op \in {"find_all", "find_one", "find_id", "find_or_create",
                "create_or_update", "create_or_update_not_none"}
     /\ "day" \notin DOMAIN values_dict) =>
        /\ pc = "done"
        /\ raised = "KeyError"
        /\ sess.new = <<>>
        /\ sess.dirty = <<>>
        /\ rows = rows0
        /\ commit_calls = 0
        /\ tries = 0

C14_Witness ==
    /\ pc = "done"
    /\ op = "find_or_create"
    /\ DOMAIN values_dict = {"steps"}
    /\ values_dict["steps"] # None
    /\ raised = "KeyError"
    /\ rows # <<>>

\* What mapping a dictionary onto an instance leaves in its columns: the
\* dictionary's value where the dictionary has the column (and the value is
\* not None or None is not ignored), the instance's own value otherwise.
MappedColumns(instance, d, ign) ==
    [c \in {"day", "steps"} |->
        IF c \in DOMAIN d /\ (d[c] # None \/ ~ign) THEN d[c] ELSE instance[c]]

\* C15: a key that names no column sets nothing, in from_dict and in
\* _from_dict on an existing row: the instance a call has mapped, and handed
\* to its session, has in every column the value it would have without that
\* key, and no other field.
C15_UnknownKeysSetNothing ==
    (pc = "commit" /\ tries = 0 /\ "bogus" \in DOMAIN values_dict) =>
        /\ \A i \in DOMAIN sess.new :
               sess.new[i] = MappedColumns(NewInstance, values_dict, FALSE)
        /\ \A i \in DOMAIN sess.dirty :
               sess.dirty[i][2] = MappedColumns(rows0[sess.dirty[i][1]], values_dict,
                                                ignore_none)
        /\ raised = "none"

C15_Witness ==
    /\ pc = "commit"
    /\ tries = 0
    /\ "bogus" \in DOMAIN values_dict
    /\ values_dict["bogus"] # None
    /\ sess.dirty # <<>>
    /\ sess.dirty[1][2] = rows0[sess.dirty[1][1]]

\* C16: setup raises ValueError whenever a declared match column name is no
\* column of the table; when it raises nothing every entry of match_cols is
\* a column, and with no match_col_names match_cols is exactly the time column.
C16_SetupChecksMatchColumns ==
    conn.op = "setup" =>
        LET declared_names == IF conn.cls.declared THEN conn.cls.match_col_names
                              ELSE {conn.cls.time_col_name}
            match == conn.result.match_cols
        IN /\ (\E name \in declared_names : name \notin {"day", "steps"}) =>
                  conn.result.raised = "ValueError"
           /\ conn.result.raised = "none" =>
                  /\ DOMAIN match = declared_names
                  /\ \A name \in DOMAIN match : match[name] = name /\ name \in {"day", "steps"}
                  /\ ~conn.cls.declared =>
                         /\ DOMAIN match = {conn.cls.time_col_name}
                         /\ match[conn.cls.time_col_name] = conn.result.time_col

C16_Witness ==
    /\ conn.op = "setup"
    /\ conn.cls.declared
    /\ conn.cls.match_col_names = {"day", "nocol"}
    /\ conn.result.raised = "ValueError"

\* C17: DB.session returns a session that no earlier call returned;
\* DB.query_session makes its session at its first call only and returns
\* that one ever after; find_all, find_one and find_id run on the shared
\* session, each write operation on a session of its own.
C17_SessionScoping ==
    /\ \A i, j \in DOMAIN sessions : sessions[i] = sessions[j] => i = j
    /\ conn.op \in QuerySessionOps =>
           /\ conn.session = _query_session
           /\ conn.query_session0 # None =>
                  (conn.session = conn.query_session0 /\ sessions = conn.sessions0)
           /\ conn.query_session0 = None =>
                  \A i \in DOMAIN conn.sessions0 : conn.sessions0[i] # conn.session
    /\ conn.op \in {"create", "find_or_create", "create_or_update"} =>
           /\ \A i \in DOMAIN conn.sessions0 : conn.sessions0[i] # conn.session
           /\ conn.session # _query_session
           /\ _query_session = conn.query_session0

C17_Witness ==
    /\ conn.op = "find_one"
    /\ conn.query_session0 # None
    /\ conn.session = conn.query_session0
    /\ Len(sessions) >= 3
    /\ sessions[Len(sessions)] # _query_session

\* C18: create_join_view drops the view if it exists and then creates it:
\* after a call the view of that name exists with the query of that call,
\* whether or not it existed before, and every other view is as it was.
C18_CreateJoinViewIdempotent ==
    conn.op = "create_join_view" =>
        /\ conn.view_name \in DOMAIN views
        /\ views[conn.view_name] = conn.query_str
        /\ DOMAIN views = DOMAIN conn.views0 \cup {conn.view_name}
        /\ \A n \in DOMAIN conn.views0 \ {conn.view_name} : views[n] = conn.views0[n]

C18_Witness ==
    /\ conn.op = "create_join_view"
    /\ conn.view_name \in DOMAIN conn.views0
    /\ conn.views0[conn.view_name] # conn.query_str
    /\ views[conn.view_name] = conn.query_str

\* C19: what a call has added to, or changed in, its session is in no
\* committed row, so that no other session can see it, before a
\* session.commit() of the call has succeeded.
C19_UncommittedInvisible ==
    (pc # "idle" /\ ~committed) => rows = rows0

C19_Witness ==
    /\ pc = "commit"
    /\ tries = 0
    /\ sess.dirty # <<>>
    /\ sess.dirty[1][2] # rows0[sess.dirty[1][1]]
    /\ rows = rows0

\* C20: row_count(col, col_value) is the number of rows whose col equals
\* col_value, for every value the column can hold, zero among them; with no
\* col it is the number of all rows.
C20_RowCount ==
    q.op = "row_count" =>
        /\ (q.col # NoneStr /\ q.col_value # None) =>
               q.result = Cardinality({i \in DOMAIN table : table[i][q.col] = q.col_value})
        /\ q.col = NoneStr => q.result = Len(table)

\* C22: when create_or_update with ignore_none false has returned normally
\* for a dictionary m that matches one existing row, every column m names
\* has m's value, None included, and every other column is as it was.
C22_NullOverwrite ==
    (/\ pc = "done"
     /\ op = "create_or_update"
     /\ ~ignore_none
     /\ raised = "none"
     /\ "day" \in DOMAIN values_dict
     /\ Cardinality(SameKey(rows0, values_dict)) = 1) =>
        \A i \in SameKey(rows0, values_dict) : \A c \in {"day", "steps"} :
            /\ c \in DOMAIN values_dict => rows[i][c] = values_dict[c]
            /\ c \notin DOMAIN values_dict => rows[i][c] = rows0[i][c]

\* C23: in DB.commit the failed attempt number i is followed by a rollback,
\* one increment of commit_errors and a wait of i, in that order, so the
\* waits are 1, 2, 3, ...; commit_errors never decreases and grows by one
\* with each failed attempt and at no other step.
C23_RetrySequence ==
    /\ [](/\ waits = [i \in 1..attempts |-> i]
          /\ Len(log) >= 4 * attempts
          /\ \A i \in 1..attempts :
                 SubSeq(log, 4 * i - 3, 4 * i)
                     = <<"commit", "rollback", "commit_errors", "sleep">>)
    /\ [][commit_errors' = commit_errors + (IF attempts' = attempts + 1 THEN 1 ELSE 0)]_vars

C23_Witness ==
    /\ pc = "commit"
    /\ attempts = 3
    /\ waits = <<1, 2, 3>>
    /\ commit_errors = 4

\* C24: from an empty table, after any sequence of find_or_create,
\* create_or_update and create_or_update_not_none calls made one at a time,
\* no two rows have the same value in the match column, and no find raises
\* MultipleResultsFound.
C24_NoDuplicateKeys ==
    /\ \A i, j \in DOMAIN rows : rows[i]["day"] = rows[j]["day"] => i = j
    /\ raised # "MultipleResultsFound"

C24_Witness ==
    /\ pc = "done"
    /\ op = "find_one"
    /\ Len(rows) = 2
    /\ rows[1]["day"] # rows[2]["day"]
    /\ "day" \in DOMAIN values_dict
    /\ values_dict["day"] = None
    /\ result # None

\* C26: when session.commit() raises an error that is no OperationalError,
\* DB.commit lets it through after that one attempt: no retry follows, no
\* wait, no rollback and no increment of commit_errors.
C26_OtherErrorsPropagate ==
    /\ [](raised = "Error" => (pc = "done" /\ ~committed /\ log[Len(log)] = "commit"))
    /\ [][(raised' = "Error" /\ raised # "Error") =>
              /\ tries' = tries + 1
              /\ commit_errors' = commit_errors
              /\ attempts' = attempts
              /\ waits' = waits
              /\ sess' = sess]_vars

C26_Witness ==
    /\ pc = "done"
    /\ raised = "Error"
    /\ tries = 1
    /\ attempts = 0
    /\ waits = <<>>
    /\ commit_errors = 0

\* C27: when DB.commit has failed 5 times and raises IOError, nothing the
\* call had pending is stored: the table is the table the call began with.
C27_ExhaustedCommitStoresNothing ==
    raised = "IOError" => (rows = rows0 /\ sess.new = <<>> /\ sess.dirty = <<>>)

C27_Witness ==
    /\ pc = "done"
    /\ raised = "IOError"
    /\ op = "create_or_update"
    /\ CallOutcome.session.new # <<>>
    /\ rows0 # <<>>
    /\ rows = rows0

\* C25: in the daily-maximum queries every calendar day inside the range
\* has a group of its own: no group holds rows of two calendar days, days of
\* different years with the same day of the year included.
C25_OneGroupPerCalendarDay ==
    q.op \in {"get_col_func_of_max_per_day", "get_col_func_of_max_per_day_for_value"} =>
        \A g \in DOMAIN q.groups : \A i, j \in q.groups[g] :
            CalendarDay(table[i].timestamp) = CalendarDay(table[j].timestamp)

\* The rows of the last query's table that its match filter lets through.
Matched ==
    {i \in DOMAIN table :
        CASE q.op = "get_col_func_for_value" -> table[i][q.match_col] = q.match_value
          [] q.op = "get_col_func_greater_than_value" -> table[i][q.match_col] > q.match_value
          [] q.op = "get_col_func_less_than_value" -> table[i][q.match_col] < q.match_value}

\* C29: in get_col_func_for_value, get_col_func_greater_than_value and
\* get_col_func_less_than_value each bound of the range is optional by
\* itself, as in get_col_func: a start_ts alone keeps the rows with
\* timestamp >= start_ts, an end_ts alone those with timestamp < end_ts.
C29_OptionalRangeBounds ==
    q.op \in {"get_col_func_for_value", "get_col_func_greater_than_value",
              "get_col_func_less_than_value"} =>
        LET counted == {i \in Matched :
                           /\ q.start_ts # None => table[i].timestamp >= q.start_ts
                           /\ q.end_ts # None => table[i].timestamp < q.end_ts
                           /\ q.ignore_le_zero => table[i].hr > 0}
        IN /\ q.result.rows = counted
           /\ q.result.scalar = sql_func(q.func, [i \in counted |-> table[i].hr], counted)

\* C21: in process_files an error of __process_file is caught and the batch
\* goes on: after every file handed to __process_file, failed or not,
\* garmin_db_session and then garmin_act_db_session are committed once, and
\* the files are processed in their order until the list ends; an error of
\* one of these commits is caught by nothing, it is the last thing
\* process_files does, and the files after that one are never processed.
C21_FailedFileDoesNotAbort ==
    LET n == Len(commit_log)
    IN /\ processed = SubSeq(file_names, 1, Len(processed))
       /\ failed \subseteq {processed[i] : i \in DOMAIN processed}
       /\ \A k \in 1..n :
             /\ commit_log[k][1] = (k + 1) \div 2
             /\ commit_log[k][2] = IF k % 2 = 1 THEN "garmin_db_session"
                                   ELSE "garmin_act_db_session"
             /\ k < n => commit_log[k][3] = "ok"
       /\ (import_pc = "raised") = (n > 0 /\ commit_log[n][3] = "raised")
       /\ import_pc = "raised" => Len(processed) = commit_log[n][1]
       /\ import_pc = "file" => (n = 2 * Len(processed) /\ Len(processed) < Len(file_names))
       /\ import_pc = "garmin_db_session.commit" => n = 2 * Len(processed) - 2
       /\ import_pc = "garmin_act_db_session.commit" => n = 2 * Len(processed) - 1
       /\ import_pc = "done" => (n = 2 * Len(file_names) /\ processed = file_names)

\* The first of two files failed, the second was processed and the batch
\* ended after four commits.
C21_Witness ==
    /\ import_pc = "done"
    /\ file_names = <<1, 2>>
    /\ 1 \in failed
    /\ processed = <<1, 2>>
    /\ Len(commit_log) = 4
    /\ garmin_act_db.activities = {[activity_id |-> 2]}

\* C28: when the two pipelines have ended their calls for the one match key,
\* whatever the order of their steps was, at most one stored row has that
\* key.
C28_ConcurrentUpsertsKeepKeyUnique ==
    (\A p \in Pipelines : pipeline[p].pc = "done")
        => Cardinality({i \in DOMAIN rows : rows[i]["day"] \in Days}) <= 1

\* C30: a file of several laps whose __process_file returned and whose
\* commits succeeded has one stored activity record for each of its points.
C30_EveryPointStored ==
    LET file_id == Len(processed)
    IN (/\ commit_log # <<>>
        /\ commit_log[Len(commit_log)] = <<file_id, "garmin_act_db_session", "ok">>
        /\ file_id \notin failed
        /\ Len(tcx) > 1)
           => Cardinality({r \in garmin_act_db.activity_records : r.activity_id = file_id})
                  = SumOfLaps(tcx)
====
